---- MODULE Spec2Model ----
(***************************************************************************)
(* Model of src/app.py: the Streamlit knowledge-assistant chat script.     *)
(*                                                                         *)
(* The script is re-run top to bottom on every interaction.  One run is    *)
(* either a sidebar interaction (API key typed, "Clear Cache", "Clear Chat *)
(* History"), the first run of a new browser session, or a chat turn.  A   *)
(* chat turn blocks on two external calls (create_agent, then              *)
(* agent_executor.invoke); pc records the position of the running script   *)
(* inside the turn handler of lines 134-189.                               *)
(*                                                                         *)
(* Texts are TLA+ strings, so concatenation, lower-casing and substring    *)
(* search are computed on the characters as Python computes them.          *)
(***************************************************************************)
EXTENDS Integers, Sequences, FiniteSets, TLC

\* ---------------------------------------------------------------- bounds
\* Turns submitted on one transcript before it is reseeded or reset.
MaxTurns == 2
\* Saturation value of the two counters of initialize_tools executions.
MaxBuilds == 2

\* ------------------------------------------------------- input alphabets
\* Texts the user may type into st.chat_input (never empty: line 134).
Prompts == {"What is quantum entanglement?", "arxiv 1706.03762"}
\* Values of response["output"] on a successful invocation.
Answers == {"Quantum entanglement is ...", "Attention Is All You Need"}
\* str(e) of the exceptions the external calls may raise.
Errors == {"Connection timed out",
           "The model llama3-70b has been DECOMMISSIONED",
           "model is deprecated"}
\* Values of the sidebar password field; "" is the untouched field.
ApiKeys == {"", "gsk_live"}

\* ---------------------------------------------------------- text helpers
\* str.lower() on one character.
LowerChar(c) ==
  LET up == "ABCDEFGHIJKLMNOPQRSTUVWXYZ"
      lo == "abcdefghijklmnopqrstuvwxyz"
      hit == {i \in 1..Len(up) : SubSeq(up, i, i) = c}
  IN  IF hit = {} THEN c ELSE LET i == CHOOSE j \in hit : TRUE IN SubSeq(lo, i, i)

RECURSIVE lower(_)
\* str.lower(): every character lower-cased, length preserved.
lower(s) ==
  IF Len(s) = 0 THEN s
  ELSE LowerChar(SubSeq(s, 1, 1)) \o lower(SubSeq(s, 2, Len(s)))

\* Python's `sub in s` on strings.
Contains(sub, s) ==
  \E i \in 1..(Len(s) - Len(sub) + 1) : SubSeq(s, i, i + Len(sub) - 1) = sub

\* s is a prefix of t (sequences of messages).
IsPrefix(s, t) ==
  /\ Len(s) <= Len(t)
  /\ \A i \in 1..Len(s) : s[i] = t[i]

Min(a, b) == IF a <= b THEN a ELSE b

\* ------------------------------------------------------- program literals
\* Line 125: the message a fresh session is seeded with.
SeedMessage ==
  [role |-> "assistant",
   content |-> "Hi, I'm a knowledge assistant who can search Wikipedia and Arxiv. How can I help you learn something new?"]

\* Line 100: the message "Clear Chat History" installs.
ClearedMessage ==
  [role |-> "assistant",
   content |-> "Hi, I'm a knowledge assistant who can search Wikipedia and Arxiv. How can I help you?"]

\* Line 145.
KeyWarning == "Please enter your Groq API key in the sidebar to continue."
\* Line 176.
NoOutputText == "No output received from agent"
\* Line 184.
ModelSuggestion ==
  "The selected model may be deprecated. Try selecting a different model from the sidebar."

\* Lines 29-36: the list the body of initialize_tools returns.
ToolList == <<"arxiv", "wikipedia">>
\* The st.cache_resource store holds no entry for initialize_tools.
NoEntry == <<>>

\* ------------------------------------------------------------------ state
VARIABLES
  messages,     \* st.session_state.messages
  api_key,      \* value of the sidebar password field
  toolsCache,   \* st.cache_resource entry of initialize_tools (process-wide)
  pc,           \* position of the script inside / outside the turn handler
  prompt,       \* the walrus-bound chat input of the running turn
  response,     \* what the agent invocation of the running turn produced
  shown,        \* elements rendered in the assistant bubble by this run
  turnStart,    \* history: messages when the running turn was submitted
  turns,        \* history: turns submitted since the transcript was (re)made
  allCred,      \* history: every such turn found a credential
  everReset,    \* history: "Clear Chat History" pressed in this session
  buildRuns,    \* history: initialize_tools body entries since last clear
  buildDone     \* history: initialize_tools body returns since last clear

vars == <<messages, api_key, toolsCache, pc, prompt, response, shown,
          turnStart, turns, allCred, everReset, buildRuns, buildDone>>

NoResponse == [kind |-> "none", text |-> ""]

TypeOK ==
  /\ Len(messages) >= 1
  /\ \A i \in 1..Len(messages) : messages[i].role \in {"user", "assistant"}
  /\ api_key \in ApiKeys
  /\ toolsCache \in {NoEntry, ToolList}
  /\ pc \in {"Idle", "AwaitingInput", "Dispatched", "Invoking",
             "Answered", "Failed", "Warned", "NoAgent", "NoOutput"}
  /\ turns \in 0..MaxTurns
  /\ buildRuns \in 0..MaxBuilds
  /\ buildDone \in 0..MaxBuilds

\* ------------------------------------------------- transcript operations
\* Line 136: st.session_state.messages.append({"role": "user", ...}).
AppendUser(msgs, q) == Append(msgs, [role |-> "user", content |-> q])

\* Variant: the assistant message is inserted at the head of the list.
AppendAssistant_front(msgs, text) ==
  <<[role |-> "assistant", content |-> text]>> \o msgs

\* Lines 170-173 and 186-189: append of an assistant-role message.
AppendAssistant(msgs, text) == Append(msgs, [role |-> "assistant", content |-> text])

\* Variant: the missing-credential branch records its warning as a reply.
NoKeyTranscript_reply(msgs) ==
  Append(msgs, [role |-> "assistant", content |-> KeyWarning])

\* Lines 143-145: what the missing-credential branch leaves in the transcript.
NoKeyTranscript(msgs) == msgs

\* Variant: "Clear Cache" also wipes the session state.
ClearCacheTranscript_wipe(msgs) == <<SeedMessage>>

\* Lines 20-23: what "Clear Cache" leaves in the transcript.
ClearCacheTranscript(msgs) == msgs

\* Line 179: error_msg = f"An error occurred: {str(e)}".
error_msg(e) == "An error occurred: " \o e

\* Variant: the keyword test without .lower().
SuggestsOtherModel_cased(e) ==
  Contains("decommissioned", e) \/ Contains("deprecated", e)

\* Line 183: the keyword test on the lower-cased description.
SuggestsOtherModel(e) ==
  Contains("decommissioned", lower(e)) \/ Contains("deprecated", lower(e))

\* Lines 180-184: what the except branch renders.
FailedShown(e) ==
  <<[kind |-> "error", text |-> error_msg(e)]>>
  \o (IF SuggestsOtherModel(e)
      THEN <<[kind |-> "warning", text |-> ModelSuggestion]>>
      ELSE <<>>)

\* ------------------------------------------------------- tool memoization
\* Variant: the decorator is missing, nothing is ever stored.
CacheStore_none(tools) == NoEntry

\* @st.cache_resource: the entry stored once the body has returned.
CacheStore(tools) == tools

\* Lines 25-36 under @st.cache_resource: a hit returns the stored list
\* without entering the body; a miss enters the body, and only a body that
\* returns stores an entry (a raising body stores nothing).
initialize_tools(cache, bodyOk) ==
  IF cache # NoEntry
  THEN [entered |-> FALSE, returned |-> TRUE, cache |-> cache]
  ELSE IF bodyOk
       THEN [entered |-> TRUE, returned |-> TRUE, cache |-> CacheStore(ToolList)]
       ELSE [entered |-> TRUE, returned |-> FALSE, cache |-> cache]

\* ------------------------------------------------------------------- Init
\* Lines 123-126 on the first run of the first session; empty cache.
Init ==
  /\ messages = <<SeedMessage>>
  /\ api_key = ""
  /\ toolsCache = NoEntry
  /\ pc = "Idle"
  /\ prompt = ""
  /\ response = NoResponse
  /\ shown = <<>>
  /\ turnStart = <<>>
  /\ turns = 0
  /\ allCred = TRUE
  /\ everReset = FALSE
  /\ buildRuns = 0
  /\ buildDone = 0

\* A run that is not a chat turn renders a fresh page and binds no prompt.
NoTurn ==
  /\ pc' = "Idle"
  /\ prompt' = ""
  /\ response' = NoResponse
  /\ shown' = <<>>
  /\ turnStart' = <<>>

\* ------------------------------------------------- sidebar interactions
\* Lines 77-81: the user edits the password field; the script re-runs.
SetApiKey(k) ==
  /\ pc = "Idle"
  /\ k # api_key
  /\ api_key' = k
  /\ NoTurn
  /\ UNCHANGED <<messages, toolsCache, turns, allCred, everReset,
                 buildRuns, buildDone>>

\* Lines 21-23: st.cache_resource.clear(); st.rerun().
ClearCache ==
  /\ pc = "Idle"
  /\ toolsCache' = NoEntry
  /\ buildRuns' = 0
  /\ buildDone' = 0
  /\ messages' = ClearCacheTranscript(messages)
  /\ NoTurn
  /\ UNCHANGED <<api_key, turns, allCred, everReset>>

\* Lines 98-102: messages replaced by the one-element list; st.rerun().
ClearChatHistory ==
  /\ pc = "Idle"
  /\ messages' = <<ClearedMessage>>
  /\ turns' = 0
  /\ allCred' = TRUE
  /\ everReset' = TRUE
  /\ NoTurn
  /\ UNCHANGED <<api_key, toolsCache, buildRuns, buildDone>>

\* Lines 123-126: a new browser session has no "messages" key and an empty
\* password field; the st.cache_resource store is shared by the process.
NewSession ==
  /\ pc = "Idle"
  /\ messages' = <<SeedMessage>>
  /\ api_key' = ""
  /\ turns' = 0
  /\ allCred' = TRUE
  /\ everReset' = FALSE
  /\ NoTurn
  /\ UNCHANGED <<toolsCache, buildRuns, buildDone>>

\* ------------------------------------------------------- the turn handler
\* Lines 134-140: chat_input returns q; the user message is appended and
\* rendered before anything else.
Submit(q) ==
  /\ pc = "Idle"
  /\ turns < MaxTurns
  /\ prompt' = q
  /\ turnStart' = messages
  /\ messages' = AppendUser(messages, q)
  /\ turns' = turns + 1
  /\ response' = NoResponse
  /\ shown' = <<>>
  /\ pc' = "AwaitingInput"
  /\ UNCHANGED <<api_key, toolsCache, allCred, everReset, buildRuns, buildDone>>

\* Lines 143-147: the credential guard.
Dispatch ==
  /\ pc = "AwaitingInput"
  /\ IF api_key = ""
     THEN /\ pc' = "Warned"
          /\ shown' = <<[kind |-> "warning", text |-> KeyWarning]>>
          /\ messages' = NoKeyTranscript(messages)
          /\ allCred' = FALSE
     ELSE /\ pc' = "Dispatched"
          /\ UNCHANGED <<shown, messages, allCred>>
  /\ UNCHANGED <<api_key, toolsCache, prompt, response, turnStart, turns,
                 everReset, buildRuns, buildDone>>

\* Lines 38-66 called from line 150, and the test of line 152.
\* llmOk: ChatGroq(...) returns; bodyOk: the body of initialize_tools
\* returns if entered; restOk: hub.pull, create_react_agent and
\* AgentExecutor return; e: str(e) of whatever was raised.
create_agent(llmOk, bodyOk, restOk, e) ==
  /\ pc = "Dispatched"
  /\ LET t == initialize_tools(toolsCache, bodyOk)
         called == llmOk
         built == llmOk /\ t.returned /\ restOk
     IN  /\ toolsCache' = IF called THEN t.cache ELSE toolsCache
         /\ buildRuns' = IF called /\ t.entered
                         THEN Min(buildRuns + 1, MaxBuilds) ELSE buildRuns
         /\ buildDone' = IF called /\ t.entered /\ t.returned
                         THEN Min(buildDone + 1, MaxBuilds) ELSE buildDone
         /\ IF built
            THEN /\ pc' = "Invoking"
                 /\ UNCHANGED shown
            ELSE /\ pc' = "NoAgent"
                 /\ shown' = <<[kind |-> "error",
                                text |-> "Error creating agent: " \o e]>>
  /\ UNCHANGED <<messages, api_key, prompt, response, turnStart, turns,
                 allCred, everReset>>

\* Lines 153-174: invoke returns a result carrying "output".
InvokeAnswer(a) ==
  /\ pc = "Invoking"
  /\ response' = [kind |-> "output", text |-> a]
  /\ messages' = AppendAssistant(messages, a)
  /\ shown' = <<[kind |-> "write", text |-> a]>>
  /\ pc' = "Answered"
  /\ UNCHANGED <<api_key, toolsCache, prompt, turnStart, turns, allCred,
                 everReset, buildRuns, buildDone>>

\* Lines 153-168, 175-176: invoke returns a result without "output".
InvokeNoOutput ==
  /\ pc = "Invoking"
  /\ response' = [kind |-> "empty", text |-> ""]
  /\ shown' = <<[kind |-> "error", text |-> NoOutputText]>>
  /\ pc' = "NoOutput"
  /\ UNCHANGED <<messages, api_key, toolsCache, prompt, turnStart, turns,
                 allCred, everReset, buildRuns, buildDone>>

\* Lines 153-165 raise, 178-189: the except branch.
InvokeRaise(e) ==
  /\ pc = "Invoking"
  /\ response' = [kind |-> "raised", text |-> e]
  /\ shown' = FailedShown(e)
  /\ messages' = AppendAssistant(messages, error_msg(e))
  /\ pc' = "Failed"
  /\ UNCHANGED <<api_key, toolsCache, prompt, turnStart, turns, allCred,
                 everReset, buildRuns, buildDone>>

\* Lines 191-201: the rest of the script runs and the run ends; the page
\* stays as rendered until the next interaction.
Finish ==
  /\ pc \in {"Answered", "Failed", "Warned", "NoAgent", "NoOutput"}
  /\ pc' = "Idle"
  /\ UNCHANGED <<messages, api_key, toolsCache, prompt, response, shown,
                 turnStart, turns, allCred, everReset, buildRuns, buildDone>>

Next ==
  \/ \E k \in ApiKeys : SetApiKey(k)
  \/ ClearCache
  \/ ClearChatHistory
  \/ NewSession
  \/ \E q \in Prompts : Submit(q)
  \/ Dispatch
  \/ \E llmOk, bodyOk, restOk \in BOOLEAN, e \in Errors :
        create_agent(llmOk, bodyOk, restOk, e)
  \/ \E a \in Answers : InvokeAnswer(a)
  \/ InvokeNoOutput
  \/ \E e \in Errors : InvokeRaise(e)
  \/ Finish

Spec == Init /\ [][Next]_vars

\* The script, once started, runs to its end provided the two external
\* calls return or raise; the user is never obliged to interact.
TurnStep ==
  \/ Dispatch
  \/ \E llmOk, bodyOk, restOk \in BOOLEAN, e \in Errors :
        create_agent(llmOk, bodyOk, restOk, e)
  \/ \E a \in Answers : InvokeAnswer(a)
  \/ InvokeNoOutput
  \/ \E e \in Errors : InvokeRaise(e)
  \/ Finish

FairSpec == Spec /\ WF_vars(TurnStep)

\* ======================================================================
\* Properties
\* ======================================================================
Last(s) == s[Len(s)]
UserMsg(q) == [role |-> "user", content |-> q]
AssistantMsg(t) == [role |-> "assistant", content |-> t]
\* The descriptions of Errors that carry a deprecation keyword in any case.
DeprecationErrors == {"The model llama3-70b has been DECOMMISSIONED",
                      "model is deprecated"}

\* C1: with no reset since the session was seeded and a credential present
\* at every turn, once N turns have completed (answer, construction
\* failure, invocation failure or missing output) the transcript has
\* 1 + 2N entries.
C1_LengthAfterTurns ==
  (pc = "Idle" /\ ~everReset /\ allCred) => Len(messages) = 1 + 2 * turns

\* C2 as stated: a turn submitted without a credential leaves the
\* transcript identical to what it was before the turn, shows a warning and
\* produces no error message.
C2_TranscriptUntouched ==
  pc = "Warned" =>
    /\ messages = turnStart
    /\ shown = <<[kind |-> "warning", text |-> KeyWarning]>>

\* C2 amended: a turn submitted without a credential leaves the transcript
\* equal to the transcript before the turn followed by the user's message
\* and nothing else; exactly the key warning is shown, no error is shown
\* and no assistant-role message is appended.
C2_WarnedKeepsOnlyUserMessage ==
  pc = "Warned" =>
    /\ messages = turnStart \o <<UserMsg(prompt)>>
    /\ shown = <<[kind |-> "warning", text |-> KeyWarning]>>
    /\ \A i \in 1..Len(shown) : shown[i].kind # "error"
    /\ response = NoResponse

C2_Witness ==
  pc = "Warned" /\ api_key = "" /\ Len(turnStart) > 1

\* C3: whatever the transcript, "Clear Chat History" leaves exactly the
\* one-element transcript holding the greeting a fresh session is seeded
\* with (same role, same content).
C3_ResetRestoresSeed ==
  [][ClearChatHistory => messages' = <<SeedMessage>>]_vars

\* C4: when the invocation returns a result without "output", an
\* assistant-role message holding the fixed "no output" text is appended
\* after the user's message, as for an invocation failure.
C4_NoOutputRecorded ==
  pc = "NoOutput" =>
    messages = turnStart \o <<UserMsg(prompt), AssistantMsg(NoOutputText)>>

\* C5 as stated: when the invocation raises with a deprecation-flavoured
\* description, the assistant-role message appended to the transcript
\* contains both the error text and the model-switch suggestion.
C5_SuggestionInTranscript ==
  (pc = "Failed" /\ response.text \in DeprecationErrors) =>
    /\ Last(messages).role = "assistant"
    /\ Contains(response.text, Last(messages).content)
    /\ Contains(ModelSuggestion, Last(messages).content)

\* C5 amended: when the invocation raises with a deprecation-flavoured
\* description (either keyword, any letter case), the assistant-role
\* message appended to the transcript is exactly "An error occurred: "
\* followed by the error text, and the model-switch suggestion is rendered
\* as a separate warning after the error, not added to that message.
C5_ErrorRecordedSuggestionShown ==
  (pc = "Failed" /\ response.text \in DeprecationErrors) =>
    /\ messages = turnStart
         \o <<UserMsg(prompt), AssistantMsg("An error occurred: " \o response.text)>>
    /\ Contains(response.text, Last(messages).content)
    /\ shown = <<[kind |-> "error", text |-> Last(messages).content],
                 [kind |-> "warning", text |-> ModelSuggestion]>>

C5_Witness ==
  /\ pc = "Failed"
  /\ api_key # ""
  /\ response.text = "The model llama3-70b has been DECOMMISSIONED"

\* C6: when create_agent returns its failure value the agent is not
\* invoked and an assistant-role error message is appended, so the user's
\* message is not left without a reply in the transcript.
C6_ConstructionFailureRecorded ==
  pc = "NoAgent" =>
    /\ response = NoResponse
    /\ Len(messages) = Len(turnStart) + 2
    /\ Last(messages).role = "assistant"

\* C7: within a session every step other than "Clear Chat History" (a step
\* of a turn whatever its outcome, "Clear Cache", a plain re-run) leaves the
\* old transcript as a prefix of the new one.
C7_AppendOnly ==
  [][ClearChatHistory \/ NewSession \/ IsPrefix(messages, messages')]_vars

C7_Witness ==
  pc = "Failed" /\ turns = 2 /\ Len(messages) = 5 /\ toolsCache = ToolList

\* C8 as stated: the body of initialize_tools is entered at most once
\* between consecutive cache clears.
C8_BodyEnteredOnce == buildRuns <= 1

\* C8 amended: the body of initialize_tools returns a tool list at most
\* once between consecutive cache clears (a run of the body that raises
\* stores nothing, so the body is entered again by the next construction).
C8_BodyReturnsOnce == buildDone <= 1

C8_Witness ==
  /\ toolsCache = ToolList
  /\ buildDone = 1
  /\ buildRuns = 2
  /\ pc = "Invoking"

\* C9: a turn with a credential, a constructed agent and a result carrying
\* answer a leaves the transcript equal to the transcript before the turn
\* followed by {user, q} and then {assistant, a}, nothing else.
C9_AnsweredTranscript ==
  pc = "Answered" =>
    messages = turnStart \o <<UserMsg(prompt), AssistantMsg(response.text)>>

C9_Witness ==
  /\ pc = "Answered"
  /\ messages = <<SeedMessage,
                  UserMsg("What is quantum entanglement?"),
                  AssistantMsg("Quantum entanglement is ...")>>

\* The three ways the turn handler is meant to end.
EndsAnswered ==
  /\ response.kind = "output"
  /\ messages = turnStart \o <<UserMsg(prompt), AssistantMsg(response.text)>>
EndsFailed ==
  /\ response.kind # "output"
  /\ Len(messages) = Len(turnStart) + 2
  /\ Last(messages).role = "assistant"
EndsWarned ==
  /\ messages = turnStart \o <<UserMsg(prompt)>>
  /\ shown = <<[kind |-> "warning", text |-> KeyWarning]>>

\* C10: provided the external calls return or raise, every submitted turn
\* eventually brings the script back to Idle, and it does so through
\* exactly one of Answered, Failed (an assistant-role error message
\* appended) or Warned.
C10_TurnResolves ==
  /\ (pc # "Idle") ~> (pc = "Idle")
  /\ [][(pc # "Idle" /\ pc' = "Idle") =>
          \/ EndsAnswered /\ ~EndsFailed /\ ~EndsWarned
          \/ EndsFailed /\ ~EndsAnswered /\ ~EndsWarned
          \/ EndsWarned /\ ~EndsAnswered /\ ~EndsFailed]_vars

====
